---- MODULE Spec2Model ----
(***************************************************************************)
(* Model of the ignition crate: the two-mode resolver                      *)
(* environment_variables (src/lib.rs) and the producer build script        *)
(* (build.rs) that retrieves assets and calls the resolver in Export mode. *)
(*                                                                         *)
(* Strings are TLA+ strings.  The process environment table holds valid    *)
(* Unicode values only, so std::env::var fails only with NotPresent.       *)
(***************************************************************************)
EXTENDS Integers, Sequences, FiniteSets, TLC

\* ------------------------------------------------------------------ bounds

\* longest contents list of a schema that Init enumerates
MaxContents == 3

\* ------------------------------------------------------- program constants

\* the prefix without cargo's DEP_ part
METADATA_KEY_PREFIX_NoDep == "IGNITION_SYS_"

METADATA_KEY_PREFIX == "DEP_IGNITION_SYS_"

\* ------------------------------------------------------------ input domains

\* Option::None of directory_path
None == "<None>"

\* asset names the callers pass (build.rs passes both)
AssetNames == {"opencv", "onnxruntime"}

\* content identifiers: one relative path, one absolute path
ContentIds == {"c", "/opt/d"}

\* paths for which Path::is_absolute holds
AbsolutePaths == {"/opt/d"}

\* variable names a schema can configure
VarNames == {"FOO", "BAR"}

\* base directories of an Export call
Dirs == {"/tmp/a"}

\* the inbound variable the spec's example names (not the one the code reads)
SpecInbound == "IGNITION_SYS_FOO"

\* inbound variable read for a configured variable name (lib.rs:107)
InboundName(env_var) == METADATA_KEY_PREFIX \o env_var

\* Path::join: an absolute argument replaces the base
PathJoin(dir, cont) == IF cont \in AbsolutePaths THEN cont ELSE dir \o "/" \o cont

\* the println! of lib.rs:102
Directive(env_var, cont_path_str) ==
    "cargo::metadata=" \o env_var \o "=" \o cont_path_str

\* HashMap::new and HashMap::insert
EmptyMap == [k \in {} |-> ""]

\* MapInsert on a map that is made anew for every entry
MapInsert_OnlyLast(m, k, v) == [x \in {k} |-> v]

MapInsert(m, k, v) == [x \in (DOMAIN m) \cup {k} |-> IF x = k THEN v ELSE m[x]]

\* results of the resolver
Pending == [tag |-> "Pending"]

Ok(v) == [tag |-> "Ok", val |-> v]

BadHashMapKeyError(key) == [tag |-> "BadHashMapKeyError", key |-> key]

EnvironmentVariableError == [tag |-> "EnvironmentVariableError", cause |-> "NotPresent"]

ConfigurationDeserializationError == [tag |-> "ConfigurationDeserializationError"]

IsErr(r) == r.tag \notin {"Pending", "Ok"}

\* AssetEnvironment values: contents list and partial content -> variable map
RECURSIVE SeqsUpTo(_, _)
SeqsUpTo(S, n) ==
    IF n = 0 THEN {<<>>}
    ELSE LET shorter == SeqsUpTo(S, n - 1)
         IN  shorter \cup {Append(s, x) : s \in {t \in shorter : Len(t) = n - 1}, x \in S}

PartialMaps(D, R) == UNION {[E -> R] : E \in SUBSET D}

Schemas ==
    {[contents |-> cs, environment |-> m] :
        cs \in SeqsUpTo(ContentIds, MaxContents), m \in PartialMaps(ContentIds, VarNames)}

\* the schema of the second asset is drawn from a small set
OnnxSchemas ==
    {[contents |-> <<"c">>, environment |-> [k \in {"c"} |-> "BAR"]]}

\* the embedded configuration: either it does not parse, or it is a map
\* from asset names to schemas
Configs ==
    {[parses |-> FALSE, assets |-> EmptyMap]} \cup
    {[parses |-> TRUE, assets |-> a] :
        a \in {EmptyMap} \cup
              {[k \in {"opencv"} |-> s] : s \in Schemas} \cup
              {[k \in {"onnxruntime"} |-> s] : s \in OnnxSchemas} \cup
              {[k \in AssetNames |-> IF k = "opencv" THEN s ELSE t] :
                  s \in Schemas, t \in OnnxSchemas}}


\* ---------------------------------------------------------------- state

VARIABLES
    cfg,             \* ENVIRONMENT_CONFIG as from_str reads it
    fs,              \* paths that exist in the filesystem
    env,             \* the process environment-variable table
    out,             \* lines written to standard output
    pc,              \* position of the resolver: idle, loop, returned
    asset,           \* argument asset of the running call
    directory_path,  \* argument directory_path of the running call
    idx,             \* position of the for loop in contents (1-based)
    env_vars,        \* the local map env_vars
    result,          \* the value the call returned
    env0,            \* the environment table when the call started
    bpc,             \* position of build.rs main (at "none": no build script)
    features,        \* cargo features the build script was compiled with
    status,          \* how the last child process ended: none, exit0, exit1
    children,        \* child processes spawned and not yet waited for
    waited           \* child processes that were waited for and have ended

libVars == <<cfg, fs, env, out, pc, asset, directory_path, idx, env_vars, result, env0>>

buildVars == <<bpc, features, status, children, waited>>

vars == <<cfg, fs, env, out, pc, asset, directory_path, idx, env_vars, result, env0,
          bpc, features, status, children, waited>>

\* --------------------------------------------------- the resolver, lib.rs

\* std::env::set_var on the table
SetVar(e, name, value) == MapInsert(e, name, value)

\* LookupVariable with a default (empty) name for an unmapped identifier
LookupVariable_DefaultName(asset_cfg, cont) ==
    IF cont \in DOMAIN asset_cfg.environment
    THEN Ok(asset_cfg.environment[cont])
    ELSE Ok("")

\* lib.rs:93-96: the variable name configured for cont, or the error of ?
LookupVariable(asset_cfg, cont) ==
    IF cont \in DOMAIN asset_cfg.environment
    THEN Ok(asset_cfg.environment[cont])
    ELSE BadHashMapKeyError(cont)

\* ExportBody with the relative identifier stored instead of the joined path
ExportBody_RelativeValue(st, env_var, dp, fsys, cont) ==
    LET cont_path == PathJoin(dp, cont) IN
    IF cont_path \in fsys
    THEN [st EXCEPT !.out = Append(@, Directive(env_var, cont_path)),
                    !.env_vars = MapInsert(@, env_var, cont)]
    ELSE st

\* ExportBody with a missing path treated as an error
ExportBody_MissingIsError(st, env_var, dp, fsys, cont) ==
    LET cont_path == PathJoin(dp, cont) IN
    IF cont_path \in fsys
    THEN [st EXCEPT !.out = Append(@, Directive(env_var, cont_path)),
                    !.env_vars = MapInsert(@, env_var, cont_path)]
    ELSE [st EXCEPT !.result = BadHashMapKeyError(cont)]

\* ExportBody with the directive written before the existence check
ExportBody_DirectiveForMissing(st, env_var, dp, fsys, cont) ==
    LET cont_path == PathJoin(dp, cont) IN
    IF cont_path \in fsys
    THEN [st EXCEPT !.out = Append(@, Directive(env_var, cont_path)),
                    !.env_vars = MapInsert(@, env_var, cont_path)]
    ELSE [st EXCEPT !.out = Append(@, Directive(env_var, cont_path))]

\* ExportBody that also sets the process variable
ExportBody_SetsVar(st, env_var, dp, fsys, cont) ==
    LET cont_path == PathJoin(dp, cont) IN
    IF cont_path \in fsys
    THEN [st EXCEPT !.out = Append(@, Directive(env_var, cont_path)),
                    !.env = SetVar(@, env_var, cont_path),
                    !.env_vars = MapInsert(@, env_var, cont_path)]
    ELSE st

\* lib.rs:99-104: the Export branch for cont, configured as env_var
ExportBody(st, env_var, dp, fsys, cont) ==
    LET cont_path == PathJoin(dp, cont) IN
    IF cont_path \in fsys
    THEN [st EXCEPT !.out = Append(@, Directive(env_var, cont_path)),
                    !.env_vars = MapInsert(@, env_var, cont_path)]
    ELSE st

\* ImportBody without the set_var call
ImportBody_NoSetVar(st, env_var) ==
    IF InboundName(env_var) \notin DOMAIN st.env
    THEN [st EXCEPT !.result = EnvironmentVariableError]
    ELSE LET env_var_value == st.env[InboundName(env_var)] IN
         [st EXCEPT !.env_vars = MapInsert(@, env_var, env_var_value)]

\* ImportBody that skips an absent inbound variable, as Export skips a file
ImportBody_SkipAbsent(st, env_var) ==
    IF InboundName(env_var) \notin DOMAIN st.env
    THEN st
    ELSE LET env_var_value == st.env[InboundName(env_var)] IN
         [st EXCEPT !.env = SetVar(@, env_var, env_var_value),
                    !.env_vars = MapInsert(@, env_var, env_var_value)]

\* ImportBody that reads the variable name itself, without the prefix
ImportBody_NoPrefix(st, env_var) ==
    IF env_var \notin DOMAIN st.env
    THEN [st EXCEPT !.result = EnvironmentVariableError]
    ELSE LET env_var_value == st.env[env_var] IN
         [st EXCEPT !.env = SetVar(@, env_var, env_var_value),
                    !.env_vars = MapInsert(@, env_var, env_var_value)]

\* lib.rs:107-111: the Import branch for the variable name env_var
ImportBody(st, env_var) ==
    IF InboundName(env_var) \notin DOMAIN st.env
    THEN [st EXCEPT !.result = EnvironmentVariableError]
    ELSE LET env_var_value == st.env[InboundName(env_var)] IN
         [st EXCEPT !.env = SetVar(@, env_var, env_var_value),
                    !.env_vars = MapInsert(@, env_var, env_var_value)]

\* LoopBody that checks the whole contents list against the mapping
\* before it handles any identifier
LoopBody_ValidateFirst(st, asset_cfg, dp, fsys, cont) ==
    LET unmapped == {i \in 1..Len(asset_cfg.contents) :
                        asset_cfg.contents[i] \notin DOMAIN asset_cfg.environment}
    IN  IF unmapped # {}
        THEN [st EXCEPT !.result =
                 BadHashMapKeyError(asset_cfg.contents[
                     CHOOSE i \in unmapped : \A j \in unmapped : i <= j])]
        ELSE IF dp # None
             THEN ExportBody(st, asset_cfg.environment[cont], dp, fsys, cont)
             ELSE ImportBody(st, asset_cfg.environment[cont])

\* One iteration of the for loop (lib.rs:92-113) for content identifier cont.
\* st holds what the iteration can change: env_vars, env, out and the
\* error the ? operator returns (result stays Pending when it goes on).
LoopBody(st, asset_cfg, dp, fsys, cont) ==
    LET looked == LookupVariable(asset_cfg, cont) IN
    IF IsErr(looked) THEN [st EXCEPT !.result = looked]
    ELSE IF dp # None
         THEN ExportBody(st, looked.val, dp, fsys, cont)
         ELSE ImportBody(st, looked.val)

\* ReturnValue that hands the partial map back after a failure
ReturnValue_PartialMap(st) == Ok(st.env_vars)

\* What the caller receives when the loop ends in state st (the ? operator
\* returns the error alone; line 114 returns the map).
ReturnValue(st) == IF IsErr(st.result) THEN st.result ELSE Ok(st.env_vars)

\* The for loop from position i on, then Ok(env_vars) (lib.rs:92-114).
RECURSIVE Loop(_, _, _, _, _)
Loop(st, asset_cfg, dp, fsys, i) ==
    IF IsErr(st.result) THEN st
    ELSE IF i > Len(asset_cfg.contents) THEN [st EXCEPT !.result = ReturnValue(st)]
    ELSE Loop(LoopBody(st, asset_cfg, dp, fsys, asset_cfg.contents[i]),
              asset_cfg, dp, fsys, i + 1)

\* LookupAsset with a default (empty) schema for an unknown asset
LookupAsset_DefaultSchema(config, a) ==
    IF ~config.parses THEN ConfigurationDeserializationError
    ELSE IF a \notin DOMAIN config.assets
         THEN Ok([contents |-> <<>>, environment |-> EmptyMap])
    ELSE Ok(config.assets[a])

\* lib.rs:87-90: parse the configuration and look the asset up
LookupAsset(config, a) ==
    IF ~config.parses THEN ConfigurationDeserializationError
    ELSE IF a \notin DOMAIN config.assets THEN BadHashMapKeyError(a)
    ELSE Ok(config.assets[a])

\* The whole function (lib.rs:83-115) on configuration config, filesystem
\* fsys, environment table e and standard output o.
environment_variables(config, a, dp, fsys, e, o) ==
    LET st0 == [env_vars |-> EmptyMap, env |-> e, out |-> o, result |-> Pending]
        looked == LookupAsset(config, a)
    IN  IF IsErr(looked) THEN [st0 EXCEPT !.result = looked]
        ELSE Loop(st0, looked.val, dp, fsys, 1)

\* lib.rs:87-91: parse the configuration, look the asset up, start the loop
Call(a, dp) ==
    /\ pc = "idle"
    /\ asset' = a
    /\ directory_path' = dp
    /\ env0' = env
    /\ env_vars' = EmptyMap
    /\ idx' = 1
    /\ IF IsErr(LookupAsset(cfg, a))
       THEN result' = LookupAsset(cfg, a) /\ pc' = "returned"
       ELSE result' = Pending /\ pc' = "loop"
    /\ UNCHANGED <<cfg, fs, env, out>>

\* lib.rs:92-113: one iteration
Iterate ==
    /\ pc = "loop"
    /\ idx <= Len(cfg.assets[asset].contents)
    /\ LET st == LoopBody([env_vars |-> env_vars, env |-> env, out |-> out,
                           result |-> Pending],
                          cfg.assets[asset], directory_path, fs,
                          cfg.assets[asset].contents[idx])
       IN  /\ env_vars' = st.env_vars
           /\ env' = st.env
           /\ out' = st.out
           /\ result' = IF IsErr(st.result) THEN ReturnValue(st) ELSE Pending
           /\ IF IsErr(st.result)
              THEN pc' = "returned" /\ idx' = idx
              ELSE pc' = "loop" /\ idx' = idx + 1
    /\ UNCHANGED <<cfg, fs, asset, directory_path, env0>>
    /\ UNCHANGED buildVars

\* lib.rs:114: the loop is over
Return ==
    /\ pc = "loop"
    /\ idx > Len(cfg.assets[asset].contents)
    /\ result' = ReturnValue([env_vars |-> env_vars, env |-> env, out |-> out,
                               result |-> Pending])
    /\ pc' = "returned"
    /\ UNCHANGED <<cfg, fs, env, out, asset, directory_path, idx, env_vars, env0>>
    /\ UNCHANGED buildVars

\* a caller of the library: any asset name, Export with a directory or Import
LibCall ==
    /\ bpc.at = "none"
    /\ \E a \in AssetNames, dp \in Dirs \cup {None} : Call(a, dp)
    /\ UNCHANGED buildVars

\* environment tables a process can start with
EnvValues(name) ==
    IF name \in VarNames THEN {"/old"}
    ELSE IF name = "DEP_IGNITION_SYS_BAR" THEN {"/x/z"}
    ELSE {"/x/y"}

EnvNames ==
    VarNames \cup {"DEP_IGNITION_SYS_FOO", "DEP_IGNITION_SYS_BAR"} \cup {SpecInbound}

EnvTables ==
    {e \in PartialMaps(EnvNames, {"/x/y", "/x/z", "/old"}) :
        \A n \in DOMAIN e : e[n] \in EnvValues(n)}

FsPaths == {PathJoin(d, c) : d \in Dirs, c \in ContentIds}

InitLib ==
    /\ cfg \in Configs
    /\ fs \in SUBSET FsPaths
    /\ env \in EnvTables
    /\ out = <<>>
    /\ pc = "idle"
    /\ asset = ""
    /\ directory_path = None
    /\ idx = 1
    /\ env_vars = EmptyMap
    /\ result = Pending
    /\ env0 = env

NoBuild == [at |-> "none", asset |-> ""]

Init ==
    /\ InitLib
    /\ bpc = NoBuild
    /\ features = {}
    /\ status = "none"
    /\ children = {}
    /\ waited = {}

Next == LibCall \/ Iterate \/ Return

Spec == Init /\ [][Next]_vars

\* ------------------------------------------------ the build script, build.rs

DEFAULT_DIRECTORY_PATH == "assets/dependencies"

\* cargo features that gate the two asset functions
Features == {"download-opencv", "download-onnxruntime"}

\* targets for which starts_with("aarch64-") && contains("linux") holds
ExcludedTargets == {"aarch64-unknown-linux-gnu"}

\* environment tables cargo can start the build script with.  (The value of
\* IGNITION_CACHE_PATH is only handed to asset.sh and is left out.)
BuildEnvValues(name) ==
    IF name = "OUT_DIR" THEN {"/t/build/ignition-0/out"}
    ELSE IF name = "TARGET" THEN {"x86_64-unknown-linux-gnu", "aarch64-unknown-linux-gnu"}
    ELSE IF name = "IGNITION_BUCKET_URL" THEN {"https://bucket"}
    ELSE {"deps"}

BuildEnvNames == {"OUT_DIR", "TARGET", "IGNITION_BUCKET_URL", "IGNITION_DIRECTORY_PATH"}

BuildEnvTables ==
    {e \in PartialMaps(BuildEnvNames,
                       UNION {BuildEnvValues(n) : n \in BuildEnvNames}) :
        \A n \in DOMAIN e : e[n] \in BuildEnvValues(n)}

\* build.rs:131-132: out_dir.split("/build").next()
BuildDir == IF env["OUT_DIR"] = "/t/build/ignition-0/out" THEN "/t" ELSE env["OUT_DIR"]

\* build.rs:135: TARGET or ""
Target == IF "TARGET" \in DOMAIN env THEN env["TARGET"] ELSE ""

\* build.rs:144: IGNITION_DIRECTORY_PATH or the default
DirectoryPath ==
    IF "IGNITION_DIRECTORY_PATH" \in DOMAIN env
    THEN env["IGNITION_DIRECTORY_PATH"] ELSE DEFAULT_DIRECTORY_PATH

\* build.rs:64, 87: Path::new(&build_dir).join(directory_path)
ExportDir == PathJoin(BuildDir, DirectoryPath)

\* the ways a spawned child process can end, as spawn and wait report them
Outcomes == {"spawn_failed", "wait_failed", "exit0", "exit1"}

Panicked == [at |-> "panicked", asset |-> ""]

Exited == [at |-> "exited", asset |-> ""]

\* build.rs:24-42: the asset function that runs after that of a ("" at first)
After(a) ==
    IF a = "" /\ "download-opencv" \in features
    THEN [at |-> "retrieve", asset |-> "opencv"]
    ELSE IF a # "onnxruntime" /\ "download-onnxruntime" \in features
         THEN [at |-> "retrieve", asset |-> "onnxruntime"]
         ELSE Exited

\* build.rs:126-147: main up to the call of asset()
Main ==
    /\ bpc.at = "main"
    /\ out' = Append(out, "cargo:rerun-if-changed=NULL")
    /\ bpc' = IF "OUT_DIR" \notin DOMAIN env THEN Panicked
              ELSE IF features = {} \/ Target \in ExcludedTargets THEN Exited
              ELSE IF "IGNITION_BUCKET_URL" \notin DOMAIN env THEN Panicked
              ELSE [at |-> "asset_script", asset |-> ""]
    /\ UNCHANGED <<cfg, fs, env, pc, asset, directory_path, idx, env_vars, result, env0>>
    /\ UNCHANGED <<features, status, children, waited>>

\* build.rs:116-120: spawn chmod +x on the script; the expect panics when
\* the child cannot be started
AssetScript ==
    /\ bpc.at = "asset_script"
    /\ \E o \in {"spawn_failed", "spawned"} :
          IF o = "spawn_failed"
          THEN bpc' = Panicked /\ children' = children
          ELSE bpc' = [at |-> "script_wait", asset |-> ""] /\ children' = children \cup {"chmod"}
    /\ UNCHANGED libVars
    /\ UNCHANGED <<features, status, waited>>

\* build.rs:122: wait for chmod; the expect panics when wait fails, the
\* exit status is dropped
AssetScriptWait ==
    /\ bpc.at = "script_wait"
    /\ \E o \in Outcomes \ {"spawn_failed"} :
          IF o = "wait_failed"
          THEN bpc' = Panicked /\ UNCHANGED <<status, children, waited>>
          ELSE /\ bpc' = After("")
               /\ status' = o
               /\ children' = children \ {"chmod"}
               /\ waited' = waited \cup {"chmod"}
    /\ UNCHANGED libVars
    /\ UNCHANGED features

\* AssetRetrieve that goes on to the Export call without waiting
AssetRetrieve_Detached ==
    /\ bpc.at = "retrieve"
    /\ \E o \in {"spawn_failed", "spawned"} :
          IF o = "spawn_failed"
          THEN bpc' = Panicked /\ children' = children
          ELSE /\ bpc' = [at |-> "export", asset |-> bpc.asset]
               /\ children' = children \cup {bpc.asset}
    /\ UNCHANGED libVars
    /\ UNCHANGED <<features, status, waited>>

\* build.rs:100-110: spawn asset.sh for the asset; the expect panics when
\* the child cannot be started
AssetRetrieve ==
    /\ bpc.at = "retrieve"
    /\ \E o \in {"spawn_failed", "spawned"} :
          IF o = "spawn_failed"
          THEN bpc' = Panicked /\ children' = children
          ELSE /\ bpc' = [at |-> "retrieve_wait", asset |-> bpc.asset]
               /\ children' = children \cup {bpc.asset}
    /\ UNCHANGED libVars
    /\ UNCHANGED <<features, status, waited>>

\* build.rs:111: wait for asset.sh; the expect panics when wait fails, the
\* exit status is dropped.  The child leaves any of the asset's paths behind.
AssetRetrieveWait ==
    /\ bpc.at = "retrieve_wait"
    /\ fs' \in SUBSET {PathJoin(ExportDir, c) : c \in ContentIds}
    /\ \E o \in Outcomes \ {"spawn_failed"} :
          IF o = "wait_failed"
          THEN bpc' = Panicked /\ UNCHANGED <<status, children, waited>>
          ELSE /\ bpc' = [at |-> "export", asset |-> bpc.asset]
               /\ status' = o
               /\ children' = children \ {bpc.asset}
               /\ waited' = waited \cup {bpc.asset}
    /\ UNCHANGED <<cfg, env, out, pc, asset, directory_path, idx, env_vars, result, env0>>
    /\ UNCHANGED features

\* build.rs:62-65, 85-88: the Export call of the asset function
AssetExport ==
    /\ bpc.at = "export"
    /\ Call(bpc.asset, ExportDir)
    /\ bpc' = [at |-> "resolving", asset |-> bpc.asset]
    /\ UNCHANGED <<features, status, children, waited>>

\* build.rs:62, 85: let _ = drops whatever the call returned, and the asset
\* function returns
AssetDiscard ==
    /\ bpc.at = "resolving"
    /\ pc = "returned"
    /\ pc' = "idle"
    /\ bpc' = After(bpc.asset)
    /\ UNCHANGED <<cfg, fs, env, out, asset, directory_path, idx, env_vars, result, env0>>
    /\ UNCHANGED <<features, status, children, waited>>

InitBuild ==
    /\ cfg \in Configs
    /\ fs = {}
    /\ env \in BuildEnvTables
    /\ out = <<>>
    /\ pc = "idle"
    /\ asset = ""
    /\ directory_path = None
    /\ idx = 1
    /\ env_vars = EmptyMap
    /\ result = Pending
    /\ env0 = env
    /\ bpc = [at |-> "main", asset |-> ""]
    /\ features \in SUBSET Features
    /\ status = "none"
    /\ children = {}
    /\ waited = {}

NextBuild ==
    \/ Main
    \/ AssetScript
    \/ AssetScriptWait
    \/ AssetRetrieve
    \/ AssetRetrieveWait
    \/ AssetExport
    \/ AssetDiscard
    \/ Iterate
    \/ Return

SpecBuild == InitBuild /\ [][NextBuild]_vars

\* ------------------------------------------------ vocabulary of the claims

Returned == pc = "returned"

Configured == cfg.parses /\ asset \in DOMAIN cfg.assets

ExportCall == pc # "idle" /\ directory_path # None

ImportCall == pc # "idle" /\ directory_path = None

Contents == cfg.assets[asset].contents

Environment == cfg.assets[asset].environment

ContentSet == {Contents[i] : i \in 1..Len(Contents)}

\* every content identifier of the schema has a variable-name entry
AllMapped == ContentSet \subseteq DOMAIN Environment

\* distinct content identifiers are configured to distinct variable names
DistinctNames ==
    \A c \in ContentSet, d \in ContentSet :
        (c # d /\ c \in DOMAIN Environment /\ d \in DOMAIN Environment)
            => Environment[c] # Environment[d]

Exists(c) == PathJoin(directory_path, c) \in fs

AllExist == \A c \in ContentSet : Exists(c)

\* the last position of the contents list configured to variable name v
LastIndexOf(v) ==
    CHOOSE i \in 1..Len(Contents) :
        /\ Contents[i] \in DOMAIN Environment
        /\ Environment[Contents[i]] = v
        /\ \A j \in (i + 1)..Len(Contents) :
              Contents[j] \in DOMAIN Environment => Environment[Contents[j]] # v

\* C1 as stated (read with every identifier having a configured variable
\* name): whenever every content identifier of the asset's schema exists
\* under the base directory, the Export call returns Ok with exactly one
\* entry per content identifier, keyed by its variable name and valued the
\* base directory joined with the identifier, and nothing else.
C1_AsStated ==
    (Returned /\ ExportCall /\ Configured /\ AllExist /\ AllMapped) =>
        /\ result.tag = "Ok"
        /\ \A c \in ContentSet :
              /\ Environment[c] \in DOMAIN result.val
              /\ result.val[Environment[c]] = PathJoin(directory_path, c)
        /\ DOMAIN result.val = {Environment[c] : c \in ContentSet}
        /\ Cardinality(DOMAIN result.val) = Cardinality(ContentSet)

\* C1 amended: if moreover every content identifier has a variable-name
\* entry, the Export call returns Ok, the keys of the map are exactly the
\* configured variable names, and each key is valued the base directory
\* joined with the last identifier in declared order configured to it; with
\* distinct names for distinct identifiers that is exactly one entry per
\* identifier, valued the directory joined with that identifier.
C1_ExportAllPresent ==
    (Returned /\ ExportCall /\ Configured /\ AllExist /\ AllMapped) =>
        /\ result.tag = "Ok"
        /\ DOMAIN result.val = {Environment[c] : c \in ContentSet}
        /\ \A v \in DOMAIN result.val :
              result.val[v] = PathJoin(directory_path, Contents[LastIndexOf(v)])
        /\ DistinctNames =>
              /\ Cardinality(DOMAIN result.val) = Cardinality(ContentSet)
              /\ \A c \in ContentSet :
                    result.val[Environment[c]] = PathJoin(directory_path, c)

\* C1 witness: an Export call over two distinct, distinctly named, existing
\* identifiers has returned a map of two entries.
C1_Witness ==
    /\ Returned /\ ExportCall /\ Configured /\ AllExist /\ AllMapped /\ DistinctNames
    /\ Cardinality(ContentSet) = 2
    /\ result.tag = "Ok"
    /\ Cardinality(DOMAIN result.val) = 2

\* the filesystem with every content identifier of the schema present
FullFs == fs \cup {PathJoin(directory_path, c) : c \in ContentSet}

\* what the same Export call returns when nothing is missing
AllPresentResult ==
    environment_variables(cfg, asset, directory_path, FullFs, env0, <<>>).result

\* the entry of content identifier c: its variable name valued its joined path
HasEntryOf(m, c) ==
    Environment[c] \in DOMAIN m /\ m[Environment[c]] = PathJoin(directory_path, c)

\* C2 as stated: for every directory state and every asset whose identifiers
\* all have a variable name, the Export call returns Ok, the map omits
\* exactly the entries of the missing identifiers, and the entry of every
\* present identifier is what it would be if nothing were missing.
C2_AsStated ==
    (Returned /\ ExportCall /\ Configured /\ AllMapped) =>
        /\ result.tag = "Ok"
        /\ \A c \in ContentSet : ~Exists(c) => ~HasEntryOf(result.val, c)
        /\ DOMAIN result.val \subseteq {Environment[c] : c \in {d \in ContentSet : Exists(d)}}
        /\ \A c \in ContentSet : Exists(c) =>
              /\ Environment[c] \in DOMAIN result.val
              /\ result.val[Environment[c]] = AllPresentResult.val[Environment[c]]

\* C2 amended: a missing identifier is never an error (the call returns Ok
\* whenever all identifiers have a variable name); and when distinct
\* identifiers are configured to distinct variable names, the map has
\* exactly the entries of the present identifiers, each the same as it
\* would be if nothing were missing.
C2_MissingIsSkipped ==
    (Returned /\ ExportCall /\ Configured /\ AllMapped) =>
        /\ result.tag = "Ok"
        /\ DistinctNames =>
              /\ DOMAIN result.val = {Environment[c] : c \in {d \in ContentSet : Exists(d)}}
              /\ \A c \in ContentSet : ~Exists(c) => ~HasEntryOf(result.val, c)
              /\ \A c \in ContentSet : Exists(c) =>
                    /\ HasEntryOf(result.val, c)
                    /\ result.val[Environment[c]] = AllPresentResult.val[Environment[c]]

\* C2 witness: an Export call with one present and one missing identifier,
\* distinctly named, has returned a map of one entry.
C2_Witness ==
    /\ Returned /\ ExportCall /\ Configured /\ AllMapped /\ DistinctNames
    /\ \E c \in ContentSet, d \in ContentSet : Exists(c) /\ ~Exists(d)
    /\ result.tag = "Ok"
    /\ Cardinality(DOMAIN result.val) = 1

\* the directives of the first n content identifiers: one line for each
\* that exists under the base directory, in declared order
RECURSIVE ExpectedDirectives(_)
ExpectedDirectives(n) ==
    IF n = 0 THEN <<>>
    ELSE IF Exists(Contents[n])
         THEN Append(ExpectedDirectives(n - 1),
                     Directive(Environment[Contents[n]],
                               PathJoin(directory_path, Contents[n])))
         ELSE ExpectedDirectives(n - 1)

\* C3: in Export mode the lines written are, at every moment, the
\* directives of the identifiers processed so far that exist under the base
\* directory, in declared order (all identifiers once the call returns Ok),
\* none for a missing identifier; and each step that writes a directive
\* for (variable name, path) adds exactly that pair to the map.
C3_Directives ==
    /\ []((ExportCall /\ Configured) =>
            /\ out = ExpectedDirectives(idx - 1)
            /\ (Returned /\ result.tag = "Ok") => idx - 1 = Len(Contents))
    /\ [][(directory_path # None /\ out' # out) =>
            LET c == Contents[idx] IN
            /\ Exists(c)
            /\ out' = Append(out, Directive(Environment[c], PathJoin(directory_path, c)))
            /\ env_vars' = MapInsert(env_vars, Environment[c], PathJoin(directory_path, c))]_vars

\* C3 witness: an Export call over three identifiers, one of them missing,
\* has returned after writing two directives.
C3_Witness ==
    /\ Returned /\ ExportCall /\ Configured /\ result.tag = "Ok"
    /\ Len(Contents) = 3
    /\ \E i \in 1..3 : ~Exists(Contents[i])
    /\ Len(out) = 2

\* the variable name configured for position i of the contents list
VarAt(i) == Environment[Contents[i]]

\* positions whose inbound variable is absent when the call starts
AbsentAt == {i \in 1..Len(Contents) : InboundName(VarAt(i)) \notin DOMAIN env0}

\* the table holds the same thing as before the call under name n
SameAsBefore(n) ==
    /\ n \in DOMAIN env <=> n \in DOMAIN env0
    /\ n \in DOMAIN env => env[n] = env0[n]

\* C4: when every content identifier has its inbound variable set, the
\* Import call returns Ok with the map from each configured variable name
\* to the value of its inbound variable, and afterwards the process
\* variable of that name holds that value, whatever it held before.
C4_ImportSetsVariables ==
    (Returned /\ ImportCall /\ Configured /\ AllMapped /\ AbsentAt = {}) =>
        /\ result.tag = "Ok"
        /\ DOMAIN result.val = {Environment[c] : c \in ContentSet}
        /\ \A c \in ContentSet :
              /\ result.val[Environment[c]] = env0[InboundName(Environment[c])]
              /\ Environment[c] \in DOMAIN env
              /\ env[Environment[c]] = env0[InboundName(Environment[c])]

\* C4 witness: an Import call over two distinctly named identifiers has
\* returned, one variable overwritten and one newly created.
C4_Witness ==
    /\ Returned /\ ImportCall /\ Configured /\ AllMapped /\ AbsentAt = {}
    /\ result.tag = "Ok"
    /\ Cardinality(DOMAIN result.val) = 2
    /\ \E v \in DOMAIN result.val : v \in DOMAIN env0 /\ env0[v] # env[v]
    /\ \E v \in DOMAIN result.val : v \notin DOMAIN env0

\* the first position whose inbound variable is absent
FirstAbsent == CHOOSE i \in AbsentAt : \A j \in AbsentAt : i <= j

\* C5 as stated (read with every identifier having a configured variable
\* name): when some inbound variable is absent the Import call fails with
\* EnvironmentVariableError at the first such identifier; the process
\* variables of the identifiers before it hold their inbound values, and no
\* process variable of the failing or of a later identifier was set.
C5_AsStated ==
    (Returned /\ ImportCall /\ Configured /\ AllMapped /\ AbsentAt # {}) =>
        /\ result = EnvironmentVariableError
        /\ idx = FirstAbsent
        /\ \A j \in 1..(FirstAbsent - 1) :
              VarAt(j) \in DOMAIN env /\ env[VarAt(j)] = env0[InboundName(VarAt(j))]
        /\ \A j \in FirstAbsent..Len(Contents) : SameAsBefore(VarAt(j))

\* C5 amended: ... the process variables of the identifiers before the
\* failing one hold their inbound values, and the call has set no process
\* variable other than those (a later identifier that shares the variable
\* name of an earlier one finds it set).
C5_ImportFailFast ==
    (Returned /\ ImportCall /\ Configured /\ AllMapped /\ AbsentAt # {}) =>
        /\ result = EnvironmentVariableError
        /\ idx = FirstAbsent
        /\ \A j \in 1..(FirstAbsent - 1) :
              VarAt(j) \in DOMAIN env /\ env[VarAt(j)] = env0[InboundName(VarAt(j))]
        /\ \A n \in (DOMAIN env \cup DOMAIN env0) \ {VarAt(j) : j \in 1..(FirstAbsent - 1)} :
              SameAsBefore(n)

\* C5 witness: an Import call has failed at its second identifier after
\* setting the process variable of the first.
C5_Witness ==
    /\ Returned /\ ImportCall /\ Configured /\ AllMapped /\ AbsentAt # {}
    /\ result = EnvironmentVariableError
    /\ idx = 2
    /\ Len(Contents) = 3
    /\ ~SameAsBefore(VarAt(1))
    /\ VarAt(3) # VarAt(1)

\* C6: for an asset name absent from the (parsed) configuration the call
\* fails with BadKeyError carrying that name; the running call has returned
\* it, and so does the resolver in Import mode and in Export mode with any
\* base directory, from any environment and filesystem reached.
C6_UnknownAsset ==
    (pc # "idle" /\ cfg.parses /\ asset \notin DOMAIN cfg.assets) =>
        /\ Returned
        /\ result = BadHashMapKeyError(asset)
        /\ \A dp \in Dirs \cup {None} :
              environment_variables(cfg, asset, dp, fs, env, out).result
                  = BadHashMapKeyError(asset)

\* C6 witness: an Import call for an asset the configuration lacks, made
\* with inbound variables set, has returned.
C6_Witness ==
    /\ Returned /\ ImportCall /\ cfg.parses
    /\ asset \notin DOMAIN cfg.assets
    /\ cfg.assets # EmptyMap
    /\ "DEP_IGNITION_SYS_FOO" \in DOMAIN env
    /\ result = BadHashMapKeyError(asset)

\* positions of the contents list that have no variable-name entry
UnmappedAt == {i \in 1..Len(Contents) : Contents[i] \notin DOMAIN Environment}

FirstUnmapped == CHOOSE i \in UnmappedAt : \A j \in UnmappedAt : i <= j

\* positions before the first unmapped one whose inbound variable is absent
AbsentBeforeUnmapped ==
    {i \in 1..(FirstUnmapped - 1) : InboundName(VarAt(i)) \notin DOMAIN env0}

\* C7 as stated: if the schema lists a content identifier without a
\* variable-name entry, the call fails with BadKeyError carrying such an
\* identifier, in Export mode for any directory state and in Import mode
\* for any environment state, wherever the identifier stands in the list.
C7_AsStated ==
    (Returned /\ Configured /\ UnmappedAt # {}) =>
        \E i \in UnmappedAt : result = BadHashMapKeyError(Contents[i])

\* C7 amended: the call fails with BadKeyError carrying the first such
\* identifier in declared order, in Export mode for any directory state,
\* and in Import mode when the inbound variables of all identifiers before
\* it are set; otherwise the Import call fails with EnvironmentVariableError
\* at the first identifier whose inbound variable is absent.
C7_DriftIsBadKey ==
    (Returned /\ Configured /\ UnmappedAt # {}) =>
        IF directory_path # None \/ AbsentBeforeUnmapped = {}
        THEN result = BadHashMapKeyError(Contents[FirstUnmapped]) /\ idx = FirstUnmapped
        ELSE /\ result = EnvironmentVariableError
             /\ idx \in AbsentBeforeUnmapped
             /\ \A j \in AbsentBeforeUnmapped : idx <= j

\* C7 witness: an Export call has failed on an unmapped identifier in second
\* position, after a directive for the first.
C7_Witness ==
    /\ Returned /\ ExportCall /\ Configured
    /\ UnmappedAt # {} /\ FirstUnmapped = 2
    /\ Len(out) = 1
    /\ result = BadHashMapKeyError(Contents[2])

\* C8 as stated: when the iteration stops at a failing identifier, the
\* caller still receives the entries accumulated before it.
C8_AsStated ==
    (Returned /\ Configured /\ IsErr(result)) =>
        /\ "val" \in DOMAIN result
        /\ result.val = env_vars

\* C8 amended: the caller receives the accumulated map only when no
\* identifier fails, and then it covers the whole contents list; when the
\* iteration stops at a failing identifier the caller receives the error
\* alone and the entries accumulated before it are dropped.
C8_ReturnValue ==
    (Returned /\ Configured) =>
        /\ result.tag = "Ok" => (result.val = env_vars /\ idx = Len(Contents) + 1)
        /\ idx <= Len(Contents) =>
              /\ "val" \notin DOMAIN result
              /\ \/ result = EnvironmentVariableError
                 \/ result = BadHashMapKeyError(Contents[idx])

\* C8 witness: a call has failed at a later identifier with an entry
\* already accumulated, and returned the error alone.
C8_Witness ==
    /\ Returned /\ Configured
    /\ idx = 2
    /\ env_vars # EmptyMap
    /\ IsErr(result)
    /\ "val" \notin DOMAIN result

C10_ResolverErrorIsFatal ==
    [][(bpc.at = "resolving" /\ Returned /\ IsErr(result)) => bpc'.at = "panicked"]_vars

\* C11: a retrieval process that fails to spawn or ends with a non-zero
\* status aborts the build, so the build script is never about to run, or
\* running, the Export resolver for an asset whose retrieval ended with a
\* non-zero status.
C11_RetrievalFailureIsFatal ==
    bpc.at \in {"export", "resolving"} => status # "exit1"

\* the rearrangements of a sequence
Perms(s) ==
    {[i \in 1..Len(s) |-> s[f[i]]] :
        f \in {g \in [1..Len(s) -> 1..Len(s)] :
                  \A i \in 1..Len(s), j \in 1..Len(s) : g[i] = g[j] => i = j}}

\* what the Export call of the current asset returns, from the state the
\* call started in, when its contents list is q
ExportResultFor(q) ==
    environment_variables([cfg EXCEPT !.assets[asset].contents = q],
                          asset, directory_path, fs, env0, <<>>).result

\* C12 as stated: for a fixed variable-name mapping and directory state, any
\* rearrangement of the contents list makes the Export call return the same
\* map.
C12_AsStated ==
    (Returned /\ ExportCall /\ Configured /\ result.tag = "Ok") =>
        \A q \in Perms(Contents) : ExportResultFor(q) = result

\* C12 amended: when distinct content identifiers are configured to
\* distinct variable names, any rearrangement of the contents list makes
\* the Export call return the same map (and fail if the call failed).
C12_OrderIndependent ==
    (Returned /\ ExportCall /\ Configured /\ DistinctNames) =>
        \A q \in Perms(Contents) :
            /\ result.tag = "Ok" => ExportResultFor(q) = result
            /\ IsErr(result) => IsErr(ExportResultFor(q))

\* C12 witness: an Export call over two distinct, distinctly named, existing
\* identifiers has returned a map of two entries, and the list in the other
\* order returns it too.
C12_Witness ==
    /\ Returned /\ ExportCall /\ Configured /\ DistinctNames /\ AllExist
    /\ Len(Contents) = 2 /\ Contents[1] # Contents[2]
    /\ result.tag = "Ok" /\ Cardinality(DOMAIN result.val) = 2
    /\ ExportResultFor(<<Contents[2], Contents[1]>>) = result

\* C13: in the build script the Export resolver runs for an asset only
\* after the retrieval process of that same asset was spawned and waited
\* for, with no child process still running; and chmod on the script was
\* waited for before any retrieval process is spawned.
C13_ExportAfterRetrieval ==
    /\ pc # "idle" =>
          /\ bpc.at = "resolving"
          /\ asset = bpc.asset
          /\ asset \in waited
          /\ children = {}
    /\ bpc.at = "export" => (bpc.asset \in waited /\ children = {})
    /\ (children \cup waited) \cap AssetNames # {} =>
          ("chmod" \in waited /\ "chmod" \notin children)

\* C13 witness: the resolver is iterating for the second asset after chmod
\* and both retrievals were waited for.
C13_Witness ==
    /\ pc = "loop"
    /\ bpc = [at |-> "resolving", asset |-> "onnxruntime"]
    /\ asset = "onnxruntime"
    /\ waited = {"chmod", "opencv", "onnxruntime"}
    /\ children = {}

\* The relay of C14: the table of the dependent process.  It starts with
\* the process variables but no inbound variable, and for each directive
\* metadata=V=P written, in order, the inbound variable of V is set to P.
RECURSIVE Relayed(_, _)
Relayed(e, lines) ==
    IF lines = <<>> THEN e
    ELSE LET l == Head(lines)
             pairs == {vp \in VarNames \X FsPaths : l = Directive(vp[1], vp[2])}
         IN  IF pairs = {} THEN Relayed(e, Tail(lines))
             ELSE LET vp == CHOOSE x \in pairs : TRUE
                  IN  Relayed(MapInsert(e, METADATA_KEY_PREFIX \o vp[1], vp[2]),
                              Tail(lines))

DependentEnv ==
    Relayed([n \in (DOMAIN env) \cap VarNames |-> env[n]], out)

\* what a later Import call for the same asset returns in the dependent
ImportAfterRelay ==
    environment_variables(cfg, asset, None, fs, DependentEnv, <<>>).result

\* C14 as stated: after an Export call that returned a map, the relayed
\* Import call returns exactly that map if Export skipped no content
\* identifier, and fails with EnvironmentVariableError if it skipped one.
C14_AsStated ==
    (Returned /\ ExportCall /\ Configured /\ result.tag = "Ok") =>
        IF AllExist THEN ImportAfterRelay = result
        ELSE ImportAfterRelay = EnvironmentVariableError

\* every configured variable name is that of an identifier Export found
EveryNameExported ==
    \A c \in ContentSet : \E d \in ContentSet : Exists(d) /\ Environment[d] = Environment[c]

\* C14 amended: the relayed Import call returns exactly the map Export
\* returned if and only if every variable name configured for the asset
\* belongs to some identifier Export found, and otherwise fails with
\* EnvironmentVariableError; when distinct identifiers have distinct
\* names, that is if and only if Export skipped no identifier.
C14_RelayRoundTrip ==
    (Returned /\ ExportCall /\ Configured /\ result.tag = "Ok") =>
        /\ IF EveryNameExported THEN ImportAfterRelay = result
           ELSE ImportAfterRelay = EnvironmentVariableError
        /\ DistinctNames => (EveryNameExported <=> AllExist)

\* C14 witness: an Export call that found one identifier and skipped
\* another, distinctly named, has returned, and the relayed Import fails.
C14_Witness ==
    /\ Returned /\ ExportCall /\ Configured /\ result.tag = "Ok" /\ DistinctNames
    /\ Len(out) = 1
    /\ ~AllExist
    /\ ImportAfterRelay = EnvironmentVariableError

\* the variable names configured for the content identifiers of the asset
ConfiguredNames ==
    IF Configured
    THEN {Environment[c] : c \in ContentSet \cap DOMAIN Environment}
    ELSE {}

\* C15: an Export call never changes the environment table, whether it
\* succeeds or fails; an Import call writes no line, changes no variable
\* other than those named by the asset's configured variable names, and
\* does not consult the filesystem (it ends the same way whatever exists).
C15_DisjointEffects ==
    /\ ExportCall => env = env0
    /\ ImportCall =>
          /\ out = <<>>
          /\ \A n \in (DOMAIN env \cup DOMAIN env0) \ ConfiguredNames : SameAsBefore(n)
          /\ Returned =>
                \A fsys \in SUBSET FsPaths :
                    LET st == environment_variables(cfg, asset, None, fsys, env0, <<>>)
                    IN  st.result = result /\ st.env = env /\ st.out = out

\* C15 witness: an Import call has returned after setting a variable, with
\* paths in the filesystem and another process variable left as it was.
C15_Witness ==
    /\ Returned /\ ImportCall /\ Configured /\ result.tag = "Ok"
    /\ fs # {}
    /\ env # env0
    /\ \E n \in DOMAIN env0 \cap VarNames : n \notin ConfiguredNames /\ env[n] = env0[n]

\* C16: when an Export call fails with BadKeyError for a content
\* identifier, it does so at the first identifier without a variable name,
\* after the directives of the earlier identifiers that exist were written
\* and with none written for a later one; a call that fails on an unknown
\* asset name or an unparseable configuration writes no directive and sets
\* no variable.
C16_DriftCheckedPerIdentifier ==
    /\ (Returned /\ ExportCall /\ Configured /\ result.tag = "BadHashMapKeyError") =>
          /\ UnmappedAt # {}
          /\ idx = FirstUnmapped
          /\ result.key = Contents[FirstUnmapped]
          /\ out = ExpectedDirectives(FirstUnmapped - 1)
          /\ Len(out) = Cardinality({i \in 1..(FirstUnmapped - 1) : Exists(Contents[i])})
    /\ (pc # "idle" /\ ~Configured) =>
          /\ Returned
          /\ result = IF cfg.parses THEN BadHashMapKeyError(asset)
                      ELSE ConfigurationDeserializationError
          /\ out = <<>>
          /\ env = env0

\* C16 witness: an Export call has failed at its second identifier after
\* the directive of the first, the third being mapped and present.
C16_Witness ==
    /\ Returned /\ ExportCall /\ Configured
    /\ Len(Contents) = 3
    /\ result = BadHashMapKeyError(Contents[2])
    /\ Len(out) = 1
    /\ Contents[3] \in DOMAIN Environment /\ Exists(Contents[3])

====
